---- MODULE Spec2Model ----
(***************************************************************************)
(* Model of niobot.utils.uptime_kuma.monitor.KumaMonitor: one monitor, the *)
(* asyncio tasks its start() creates, direct callers of push(), the host's *)
(* message events and the notifications it dispatches.                     *)
(*                                                                         *)
(* A step of the model is one uninterrupted run of code between two        *)
(* suspension points of the asyncio event loop (await http.get, line 145,  *)
(* and await asyncio.sleep, line 162), or one synchronous call from the    *)
(* host (start, stop, the message listener).                               *)
(*                                                                         *)
(* Latencies are integers counted in hundredths of a millisecond, so that  *)
(* round(x, 2) is a rounding to an integer.                                *)
(***************************************************************************)
EXTENDS Integers, Sequences, FiniteSets

\* ---------------------------------------------------------------- bounds
MaxTasks == 2          \* start() is called at most this many times
MaxCallers == 1        \* coroutines of the host that call push() directly
MaxMessages == 1       \* message events delivered by the host
MaxTime == 1           \* the clock read by time.time() stops ticking here
IterMod == 2           \* loop iterations are numbered modulo this
MaxOverflow == 3       \* WindowSpec: message events beyond the capacity of the deque
MaxSamples == 3        \* LatencySpec: message events delivered by the host

\* ------------------------------------------------------------- constants
HistoryMaxLen == 100
HttpOk == 200

NoTask == 0
None == -1
NoPing == -1
NoParams == [status |-> "", msg |-> "", ping |-> NoPing]

TaskIds == 1..MaxTasks
CallerIds == (MaxTasks + 1)..(MaxTasks + MaxCallers)
Pushers == TaskIds \cup CallerIds

Latencies == {1000, 2001}
SampleValues == {1000, 2000, 3000, 2001}
Intervals == {60}
StatusCodes == {200, 500}
StatusReturns == {"True", "False", "raise"}
MsgReturns == {"OK", "", "raise"}
GetterErrors == {"StatusGetterError", "MsgGetterError"}
AutopushEvents == {"kuma_autopush_start", "kuma_autopush_end", "kuma_autopush_error"}

VARIABLES
    _task,            \* self._task: NoTask or the id of the retained task
    _last_push,       \* self._last_push: None or a clock value
    _history,         \* self._history: the deque of latency samples
    arrived,          \* the latencies of all message events so far, in arrival order
    include_latency,  \* self.include_latency
    interval,         \* self.__interval
    now,              \* the clock read by time.time()
    pc,               \* where each task or caller is suspended
    cancel,           \* per task: "no", "requested" (Task.cancel() called), "delivered"
    inflight,         \* per pusher: params["ping"] of the request it awaits, or NoPing
    iteration,        \* per task: number of the current loop iteration, mod IterMod
    iterLog,          \* per task: the names of what it dispatched in its current iteration
    emitted,          \* the notifications dispatched by the last step, in order
    sent,             \* the HTTP requests issued by the last step
    lastOp            \* the operation of the last step and the outcome of push() in it

vars == <<_task, _last_push, _history, arrived, include_latency, interval, now, pc, cancel,
          inflight, iteration, iterLog, emitted, sent, lastOp>>

config == <<include_latency, interval>>

\* ---------------------------------------------------------------- helpers
Ev(name, by, status, exc) == [name |-> name, by |-> by, status |-> status, exc |-> exc]

\* lastOp: the operation, who ran it, which getter raised in it ("" when it
\* called none, "ok", "status" or "msg"), and what push() returned or raised
Op(op, by, getters, returned, raised) ==
    [op |-> op, by |-> by, getters |-> getters, returned |-> returned, raised |-> raised]

Getters(status, msg) ==
    IF status = "raise" THEN "status" ELSE IF msg = "raise" THEN "msg" ELSE "ok"

Names(evs) == [i \in 1..Len(evs) |-> evs[i].name]

RECURSIVE Sum(_)
Sum(s) == IF s = <<>> THEN 0 ELSE Head(s) + Sum(Tail(s))

\* n / d truncated instead of rounded
RoundDown(n, d) == n \div d

\* round(n / d) to the nearest integer, ties to even, as Python's round()
Round(n, d) ==
    LET q == n \div d
        r == n % d
    IN  IF 2 * r < d THEN q
        ELSE IF 2 * r > d THEN q + 1
        ELSE IF q % 2 = 0 THEN q ELSE q + 1

\* a full deque that drops its newest sample instead of its oldest
Append100_evict_newest(h, x) ==
    IF Len(h) >= HistoryMaxLen THEN Append(SubSeq(h, 1, Len(h) - 1), x) ELSE Append(h, x)

\* collections.deque(maxlen=100).append
Append100(h, x) == IF Len(h) >= HistoryMaxLen THEN Append(Tail(h), x) ELSE Append(h, x)

\* average_latency with an empty deque averaged to zero
average_latency_zero(h) ==
    IF Len(h) = 0 THEN [exc |-> "", val |-> 0]
    ELSE [exc |-> "", val |-> Round(Sum(h), Len(h))]

\* KumaMonitor.average_latency: [exc, val]; the division raises on an empty deque
average_latency(h) ==
    IF Len(h) = 0 THEN [exc |-> "ZeroDivisionError", val |-> NoPing]
    ELSE [exc |-> "", val |-> Round(Sum(h), Len(h))]

\* push with the getters' exceptions caught and replaced by "down" and no message
push_params_default(status, msg, h, incl) ==
    LET avg == IF incl THEN average_latency(h) ELSE [exc |-> "", val |-> NoPing]
    IN  IF avg.exc # "" THEN [exc |-> avg.exc, params |-> NoParams]
        ELSE [exc |-> "",
              params |-> [status |-> IF status = "True" THEN "up" ELSE "down",
                          msg |-> IF msg \in {"", "raise"} THEN "None" ELSE msg,
                          ping |-> avg.val]]

\* KumaMonitor.push, lines 136-144: the getters, then the params
push_params(status, msg, h, incl) ==
    IF status = "raise" THEN [exc |-> "StatusGetterError", params |-> NoParams]
    ELSE IF msg = "raise" THEN [exc |-> "MsgGetterError", params |-> NoParams]
    ELSE LET avg == IF incl THEN average_latency(h) ELSE [exc |-> "", val |-> NoPing]
         IN  IF avg.exc # "" THEN [exc |-> avg.exc, params |-> NoParams]
             ELSE [exc |-> "",
                   params |-> [status |-> IF status = "True" THEN "up" ELSE "down",
                               msg |-> IF msg = "" THEN "None" ELSE msg,
                               ping |-> avg.val]]

\* push with last_push set by every response
push_response_any(p, code) ==
    [last_push |-> now,
     emit |-> <<Ev("kuma_push", p, code, "")>>]

\* push with kuma_push dispatched for a 200 response only
push_response_ok_only(p, code) ==
    [last_push |-> IF code = HttpOk THEN now ELSE _last_push,
     emit |-> IF code = HttpOk THEN <<Ev("kuma_push", p, code, "")>> ELSE <<>>]

\* KumaMonitor.push, lines 146-150: what push() does with the response
push_response(p, code) ==
    [last_push |-> IF code = HttpOk THEN now ELSE _last_push,
     emit |-> <<Ev("kuma_push", p, code, "")>>]

\* main_loop with kuma_autopush_error dispatched after every push
main_loop_else_both(t, code) ==
    [emit |-> <<Ev("kuma_autopush_end", t, code, ""), Ev("kuma_autopush_error", t, 0, "")>>,
     pc |-> "sleep"]

\* main_loop with a response other than 200 reported as a failure
main_loop_else_raise_for_status(t, code) ==
    IF code = HttpOk
    THEN [emit |-> <<Ev("kuma_autopush_end", t, code, "")>>, pc |-> "sleep"]
    ELSE [emit |-> <<Ev("kuma_autopush_error", t, 0, "HTTPStatusError")>>, pc |-> "sleep"]

\* KumaMonitor.main_loop, line 158: push() returned
main_loop_else(t, code) ==
    [emit |-> <<Ev("kuma_autopush_end", t, code, "")>>, pc |-> "sleep"]

\* main_loop without its except clause: the exception passes through the
\* finally block and ends the task
main_loop_except_reraise(t, e) ==
    [emit |-> <<>>, pc |-> "sleep_raising"]

\* main_loop with the sleep of line 162 skipped after a failed push
main_loop_except_no_sleep(t, e) ==
    [emit |-> <<Ev("kuma_autopush_error", t, 0, e)>>, pc |-> "created"]

\* KumaMonitor.main_loop, lines 159-162: push() raised an Exception
main_loop_except(t, e) ==
    [emit |-> <<Ev("kuma_autopush_error", t, 0, e)>>, pc |-> "sleep"]

\* main_loop with CancelledError caught by the except clause of line 159
main_loop_cancelled_caught(t) ==
    [emit |-> <<Ev("kuma_autopush_error", t, 0, "CancelledError")>>, pc |-> "sleep"]

\* KumaMonitor.main_loop, lines 156-162: CancelledError is thrown into the
\* await of push(); no except clause catches it and the finally block sleeps
main_loop_cancelled(t) ==
    [emit |-> <<>>, pc |-> "sleep_raising"]

\* stop that clears the handle and cancels nothing
stop_clear_only(tk, cn, p) ==
    [_task |-> NoTask, cancel |-> cn]

\* stop that cancels the task and keeps its handle
stop_keep_handle(tk, cn, p) ==
    IF tk # NoTask
    THEN [_task |-> tk,
          cancel |-> [cn EXCEPT ![tk] = IF p[tk] = "done" THEN @ ELSE "requested"]]
    ELSE [_task |-> tk, cancel |-> cn]

\* KumaMonitor.stop as a function of the fields it reads
stop(tk, cn, p) ==
    IF tk # NoTask
    THEN [_task |-> NoTask,
          cancel |-> [cn EXCEPT ![tk] = IF p[tk] = "done" THEN @ ELSE "requested"]]
    ELSE [_task |-> tk, cancel |-> cn]

\* next_push computed from last_push without the test for None
next_push_unguarded == _last_push + interval

\* KumaMonitor.next_push
next_push == IF _last_push = None THEN None ELSE _last_push + interval

\* ------------------------------------------------------------------- Init
Init ==
    /\ _task = NoTask
    /\ _last_push = None
    /\ _history = <<>>
    /\ arrived = <<>>
    /\ include_latency \in BOOLEAN
    /\ interval \in Intervals
    /\ now = 0
    /\ pc = [p \in Pushers |-> IF p \in TaskIds THEN "unborn" ELSE "idle"]
    /\ cancel = [t \in TaskIds |-> "no"]
    /\ inflight = [p \in Pushers |-> NoPing]
    /\ iteration = [t \in TaskIds |-> 0]
    /\ iterLog = [t \in TaskIds |-> <<>>]
    /\ emitted = <<>>
    /\ sent = <<>>
    /\ lastOp = Op("init", 0, "", 0, "")

\* ---------------------------------------------------------------- actions
\* KumaMonitor.start
Start ==
    /\ \E t \in TaskIds :
        /\ pc[t] = "unborn"
        /\ \A u \in TaskIds : u < t => pc[u] # "unborn"
        /\ pc' = [pc EXCEPT ![t] = "created"]
        /\ _task' = t
        /\ lastOp' = Op("start", t, "", 0, "")
    /\ emitted' = <<>>
    /\ sent' = <<>>
    /\ UNCHANGED <<_last_push, _history, arrived, config, now, cancel, inflight, iteration, iterLog>>

\* KumaMonitor.stop
Stop ==
    /\ LET s == stop(_task, cancel, pc) IN
        /\ _task' = s._task
        /\ cancel' = s.cancel
    /\ lastOp' = Op("stop", _task, "", 0, "")
    /\ emitted' = <<>>
    /\ sent' = <<>>
    /\ UNCHANGED <<_last_push, _history, arrived, config, now, pc, inflight, iteration, iterLog>>

\* _message_listener with the params of the requests in flight following the deque
Record_live(x) ==
    /\ _history' = Append100(_history, x)
    /\ arrived' = Append(arrived, x)
    /\ lastOp' = Op("message", 0, "", 0, "")
    /\ emitted' = <<>>
    /\ sent' = <<>>
    /\ inflight' = [p \in Pushers |->
                        IF inflight[p] = NoPing THEN NoPing
                        ELSE average_latency(Append100(_history, x)).val]
    /\ UNCHANGED <<_task, _last_push, config, now, pc, cancel, iteration, iterLog>>

\* KumaMonitor._message_listener with the latency x of the event
Record(x) ==
    /\ _history' = Append100(_history, x)
    /\ arrived' = Append(arrived, x)
    /\ lastOp' = Op("message", 0, "", 0, "")
    /\ emitted' = <<>>
    /\ sent' = <<>>
    /\ UNCHANGED <<_task, _last_push, config, now, pc, cancel, inflight, iteration, iterLog>>

\* a message event of the host
Message(x) ==
    /\ Len(arrived) < MaxMessages
    /\ Record(x)

\* KumaMonitor._message_listener, line 92, when client.latency(message)
\* raises: nothing is appended and nothing catches the exception
MessageLatencyError ==
    /\ lastOp' = Op("message", 0, "", 0, "LatencyError")
    /\ emitted' = <<>>
    /\ sent' = <<>>
    /\ UNCHANGED <<_task, _last_push, _history, arrived, config, now, pc, cancel, inflight,
                   iteration, iterLog>>

\* the clock advances
Tick ==
    /\ now < MaxTime
    /\ now' = now + 1
    /\ lastOp' = Op("tick", 0, "", 0, "")
    /\ emitted' = <<>>
    /\ sent' = <<>>
    /\ UNCHANGED <<_task, _last_push, _history, arrived, config, pc, cancel, inflight, iteration, iterLog>>

\* KumaMonitor.main_loop, lines 153-157 with push, lines 136-145: the task
\* runs for the first time or its sleep ends, and a new iteration runs up
\* to the next suspension point
LoopIterate(t, status, msg) ==
    /\ pc[t] \in {"created", "sleep"}
    /\ cancel[t] = "no"
    /\ LET r == push_params(status, msg, _history, include_latency)
           starting == <<Ev("kuma_autopush_start", t, 0, "")>>
       IN  IF r.exc = ""
           THEN /\ pc' = [pc EXCEPT ![t] = "push_await"]
                /\ inflight' = [inflight EXCEPT ![t] = r.params.ping]
                /\ sent' = <<r.params>>
                /\ emitted' = starting
                /\ iterLog' = [iterLog EXCEPT ![t] = Names(starting)]
                /\ lastOp' = Op("main_loop", t, Getters(status, msg), 0, "")
           ELSE LET x == main_loop_except(t, r.exc) IN
                /\ pc' = [pc EXCEPT ![t] = x.pc]
                /\ inflight' = inflight
                /\ sent' = <<>>
                /\ emitted' = starting \o x.emit
                /\ iterLog' = [iterLog EXCEPT ![t] = Names(starting \o x.emit)]
                /\ lastOp' = Op("main_loop", t, Getters(status, msg), 0, r.exc)
    /\ iteration' = [iteration EXCEPT ![t] = (@ + 1) % IterMod]
    /\ UNCHANGED <<_task, _last_push, _history, arrived, config, now, cancel>>

\* KumaMonitor.push called by the host, lines 136-145
DirectPush(c, status, msg) ==
    /\ pc[c] = "idle"
    /\ LET r == push_params(status, msg, _history, include_latency) IN
       IF r.exc = ""
       THEN /\ pc' = [pc EXCEPT ![c] = "push_await"]
            /\ inflight' = [inflight EXCEPT ![c] = r.params.ping]
            /\ sent' = <<r.params>>
            /\ lastOp' = Op("push", c, Getters(status, msg), 0, "")
       ELSE /\ pc' = pc
            /\ inflight' = inflight
            /\ sent' = <<>>
            /\ lastOp' = Op("push", c, Getters(status, msg), 0, r.exc)
    /\ emitted' = <<>>
    /\ UNCHANGED <<_task, _last_push, _history, arrived, config, now, cancel, iteration, iterLog>>

\* http.get returns a response: push, lines 145-150, and for a loop
\* main_loop, line 158 and the sleep of line 162
PushResponse(p, code) ==
    /\ pc[p] = "push_await"
    /\ p \in TaskIds => cancel[p] = "no"
    /\ LET r == push_response(p, code) IN
        /\ _last_push' = r.last_push
        /\ IF p \in TaskIds
           THEN LET x == main_loop_else(p, code) IN
                /\ pc' = [pc EXCEPT ![p] = x.pc]
                /\ emitted' = r.emit \o x.emit
                /\ iterLog' = [iterLog EXCEPT ![p] = @ \o Names(r.emit \o x.emit)]
           ELSE /\ pc' = [pc EXCEPT ![p] = "idle"]
                /\ emitted' = r.emit
                /\ iterLog' = iterLog
    /\ inflight' = [inflight EXCEPT ![p] = NoPing]
    /\ sent' = <<>>
    /\ lastOp' = Op("http_response", p, "", code, "")
    /\ UNCHANGED <<_task, _history, arrived, config, now, cancel, iteration>>

\* http.get raises (connection error, timeout): push re-raises at line 145,
\* and a loop handles it at lines 159-162
PushTransportError(p) ==
    /\ pc[p] = "push_await"
    /\ p \in TaskIds => cancel[p] = "no"
    /\ IF p \in TaskIds
       THEN LET x == main_loop_except(p, "TransportError") IN
            /\ pc' = [pc EXCEPT ![p] = x.pc]
            /\ emitted' = x.emit
            /\ iterLog' = [iterLog EXCEPT ![p] = @ \o Names(x.emit)]
       ELSE /\ pc' = [pc EXCEPT ![p] = "idle"]
            /\ emitted' = <<>>
            /\ iterLog' = iterLog
    /\ inflight' = [inflight EXCEPT ![p] = NoPing]
    /\ sent' = <<>>
    /\ lastOp' = Op("http_error", p, "", 0, "TransportError")
    /\ UNCHANGED <<_task, _last_push, _history, arrived, config, now, cancel, iteration>>

\* The event loop throws CancelledError into a task stop() cancelled, at the
\* point where the task is suspended. CancelledError is not an Exception:
\* line 159 does not catch it. From line 145 it passes through the finally
\* block, which awaits the sleep of line 162; from line 162, and in a task
\* that never ran, it ends the task.
CancelDeliver(t) ==
    /\ cancel[t] = "requested"
    /\ pc[t] \in {"created", "push_await", "sleep"}
    /\ cancel' = [cancel EXCEPT ![t] = "delivered"]
    /\ IF pc[t] = "push_await"
       THEN LET x == main_loop_cancelled(t) IN
            /\ pc' = [pc EXCEPT ![t] = x.pc]
            /\ emitted' = x.emit
            /\ iterLog' = [iterLog EXCEPT ![t] = @ \o Names(x.emit)]
            /\ iteration' = iteration
       ELSE /\ pc' = [pc EXCEPT ![t] = "done"]
            /\ emitted' = <<>>
            /\ iterLog' = [iterLog EXCEPT ![t] = <<>>]
            /\ iteration' = [iteration EXCEPT ![t] = 0]
    /\ inflight' = [inflight EXCEPT ![t] = NoPing]
    /\ sent' = <<>>
    /\ lastOp' = Op("cancelled", t, "", 0, "CancelledError")
    /\ UNCHANGED <<_task, _last_push, _history, arrived, config, now>>

\* main_loop, line 162, in a finally block entered by an exception that no
\* except clause caught: when the sleep ends the exception ends the task
SleepRaisingDone(t) ==
    /\ pc[t] = "sleep_raising"
    /\ pc' = [pc EXCEPT ![t] = "done"]
    /\ emitted' = <<>>
    /\ sent' = <<>>
    /\ iteration' = [iteration EXCEPT ![t] = 0]
    /\ iterLog' = [iterLog EXCEPT ![t] = <<>>]
    /\ lastOp' = Op("task_end", t, "", 0, "")
    /\ UNCHANGED <<_task, _last_push, _history, arrived, config, now, cancel, inflight>>

Next ==
    \/ Start
    \/ Stop
    \/ \E x \in Latencies : Message(x)
    \/ MessageLatencyError
    \/ Tick
    \/ \E t \in TaskIds, status \in StatusReturns, msg \in MsgReturns : LoopIterate(t, status, msg)
    \/ \E c \in CallerIds, status \in StatusReturns, msg \in MsgReturns : DirectPush(c, status, msg)
    \/ \E p \in Pushers, code \in StatusCodes : PushResponse(p, code)
    \/ \E p \in Pushers : PushTransportError(p)
    \/ \E t \in TaskIds : CancelDeliver(t)
    \/ \E t \in TaskIds : SleepRaisingDone(t)

Spec == Init /\ [][Next]_vars

\* The deque at its capacity: the first WindowFill events carry their own
\* number as latency, the later ones any of Latencies, up to MaxOverflow
\* events beyond the capacity.
WindowFill == HistoryMaxLen - 2

WindowLatencies(n) == IF n <= WindowFill THEN {n} ELSE Latencies

WindowMessage(x) ==
    /\ Len(arrived) < HistoryMaxLen + MaxOverflow
    /\ x \in WindowLatencies(Len(arrived) + 1)
    /\ Record(x)

WindowNext == \E x \in (1..WindowFill) \cup Latencies : WindowMessage(x)

WindowSpec == Init /\ [][WindowNext]_vars

\* The latency samples and the pushes that read them: message events with
\* latencies of SampleValues and push() called by the host.
SampleMessage(x) ==
    /\ Len(arrived) < MaxSamples
    /\ Record(x)

LatencyNext ==
    \/ \E x \in SampleValues : SampleMessage(x)
    \/ \E c \in CallerIds, status \in StatusReturns, msg \in MsgReturns : DirectPush(c, status, msg)
    \/ \E c \in CallerIds, code \in StatusCodes : PushResponse(c, code)
    \/ \E c \in CallerIds : PushTransportError(c)

LatencySpec == Init /\ [][LatencyNext]_vars

\* The steps of the autopush loops alone: start(), stop(), the host's message
\* events and the steps of the tasks. A direct push() and the clock change
\* neither a task's position nor its cancellation.
LoopNext ==
    \/ Start
    \/ Stop
    \/ \E x \in Latencies : Message(x)
    \/ \E t \in TaskIds, status \in StatusReturns, msg \in MsgReturns : LoopIterate(t, status, msg)
    \/ \E t \in TaskIds, code \in StatusCodes : PushResponse(t, code)
    \/ \E t \in TaskIds : PushTransportError(t)
    \/ \E t \in TaskIds : CancelDeliver(t)
    \/ \E t \in TaskIds : SleepRaisingDone(t)

\* The event loop runs every task that is ready, every timer fires, and
\* every HTTP request ends with a response or with an exception.
Fairness ==
    \A t \in TaskIds :
        /\ WF_vars(\E status \in StatusReturns, msg \in MsgReturns : LoopIterate(t, status, msg))
        /\ WF_vars((\E code \in StatusCodes : PushResponse(t, code)) \/ PushTransportError(t))
        /\ WF_vars(CancelDeliver(t))
        /\ WF_vars(SleepRaisingDone(t))

FairSpec == Init /\ [][LoopNext]_vars /\ Fairness

\* ------------------------------------------------------------ definitions
Alive(t) == pc[t] \in {"created", "push_await", "sleep", "sleep_raising"}

AliveLoops == {t \in TaskIds : Alive(t)}

\* pushers between reading the providers and receiving the response
Pushing == {p \in Pushers : pc[p] = "push_await"}

EmittedNames == {emitted[i].name : i \in 1..Len(emitted)}

EmittedBy(name, t) == \E i \in 1..Len(emitted) : emitted[i].name = name /\ emitted[i].by = t

\* ----------------------------------------------------------------- claims
\* C1: after any sequence of start() and stop() calls, start() on a running
\* monitor included, at most one autopush loop of the monitor is alive.
C1_AtMostOneLoop == Cardinality(AliveLoops) <= 1

\* C2: within one monitor no two push attempts overlap: at most one push()
\* is between reading its providers and receiving its response.
C2_NoOverlap == Cardinality(Pushing) <= 1

\* C3: a push failure never ends the loop: when push() raises in a loop
\* iteration, the loop emits kuma_autopush_error with that exception, does
\* not re-raise (the task ends only by cancellation) and, unless stop()
\* cancels it, begins a further iteration with a kuma_autopush_start.
C3_FailureIsolated ==
    \A t \in TaskIds :
        /\ [](pc[t] = "done" => cancel[t] = "delivered")
        /\ []((lastOp.by = t /\ lastOp.raised \notin {"", "CancelledError"})
                => /\ \E i \in 1..Len(emitted) :
                        emitted[i] = Ev("kuma_autopush_error", t, 0, lastOp.raised)
                   /\ pc[t] = "sleep")
        /\ \A k \in 0..(IterMod - 1) :
            (EmittedBy("kuma_autopush_error", t) /\ iteration[t] = k)
                ~> (cancel[t] # "no"
                    \/ (iteration[t] # k /\ EmittedBy("kuma_autopush_start", t)))

\* a loop that already began a further iteration after a failure reports
\* the failure of that iteration too, and sleeps
C3_Witness ==
    \E t \in TaskIds :
        /\ cancel[t] = "no"
        /\ iteration[t] = 0
        /\ pc[t] = "sleep"
        /\ lastOp.op = "main_loop"
        /\ lastOp.by = t
        /\ lastOp.raised = "ZeroDivisionError"
        /\ EmittedBy("kuma_autopush_error", t)

\* C4: in a loop that is not cancelled every iteration emits
\* kuma_autopush_start first and then exactly one of kuma_autopush_end
\* (push() returned a response) or kuma_autopush_error (push() raised),
\* and the next kuma_autopush_start comes only after that.
C4_IterationEvents ==
    \A t \in TaskIds : cancel[t] = "no" =>
        /\ pc[t] \in {"unborn", "created"} => iterLog[t] = <<>>
        /\ pc[t] = "push_await" => iterLog[t] = <<"kuma_autopush_start">>
        /\ pc[t] = "sleep" =>
            iterLog[t] \in {<<"kuma_autopush_start", "kuma_push", "kuma_autopush_end">>,
                            <<"kuma_autopush_start", "kuma_autopush_error">>}
        /\ (lastOp.by = t /\ lastOp.returned # 0) =>
            /\ EmittedBy("kuma_autopush_end", t)
            /\ ~EmittedBy("kuma_autopush_error", t)
        /\ (lastOp.by = t /\ lastOp.raised # "") =>
            /\ EmittedBy("kuma_autopush_error", t)
            /\ ~EmittedBy("kuma_autopush_end", t)
        /\ (lastOp.by = t /\ lastOp.op = "main_loop") =>
            Len(emitted) >= 1 /\ emitted[1] = Ev("kuma_autopush_start", t, 0, "")

\* a loop that was not cancelled ended an iteration that is not its first
\* with a failure
C4_Witness ==
    \E t \in TaskIds :
        /\ cancel[t] = "no"
        /\ pc[t] = "sleep"
        /\ iteration[t] = 0
        /\ lastOp.by = t
        /\ lastOp.op = "http_error"
        /\ iterLog[t] = <<"kuma_autopush_start", "kuma_autopush_error">>

\* what the monitor holds, apart from the record of the last step
fields == <<_task, _last_push, _history, include_latency, interval, pc, cancel, inflight>>

\* C5: last_push_time is None until the first 200 response and changes only
\* at the step where a push() receives a response with status code 200: a
\* non-200 response, a push that raises and a cancelled push leave it as it is.
C5_LastPushOnlyOn200 ==
    /\ _last_push = None
    /\ [][_last_push' # _last_push =>
            /\ lastOp'.op = "http_response"
            /\ lastOp'.returned = HttpOk
            /\ _last_push' = now]_vars

\* a 200 response has set last_push_time to a new value
C5_Witness ==
    /\ lastOp.op = "http_response"
    /\ lastOp.returned = HttpOk
    /\ now > 0
    /\ _last_push = now

\* C6: after stop() the monitor begins no further push attempt and emits no
\* further kuma_autopush_start, kuma_autopush_end or kuma_autopush_error
\* until start() is called again.
C6_SilentAfterStop ==
    [][(_task = NoTask /\ _task' = NoTask) =>
            /\ EmittedNames' \cap AutopushEvents = {}
            /\ ~(lastOp'.op = "main_loop" /\ sent' # <<>>)]_vars

\* C7: stop() on a monitor that was never started or is already stopped
\* raises nothing and changes nothing, every stop() leaves no retained task
\* handle, and a second stop() leaves the state of the first.
C7_StopIdempotent ==
    [][lastOp'.op = "stop" =>
            /\ lastOp'.raised = ""
            /\ _task' = NoTask
            /\ _task = NoTask => UNCHANGED fields
            /\ stop(_task', cancel', pc') = [_task |-> _task', cancel |-> cancel']]_vars

\* stop() was called on a monitor that an earlier stop() had already stopped
C7_Witness ==
    /\ lastOp.op = "stop"
    /\ lastOp.by = NoTask
    /\ _task = NoTask
    /\ \E t \in TaskIds : cancel[t] # "no"

\* C8: if the status getter or the message getter raises during push(), no
\* HTTP request is issued, kuma_push is not dispatched, last_push_time is
\* unchanged and the getter's exception reaches the caller: push() raises
\* it, and the loop reports it in kuma_autopush_error.
C8_GetterErrorPropagates ==
    [][lastOp'.getters \in {"status", "msg"} =>
            /\ lastOp'.raised =
                (IF lastOp'.getters = "status" THEN "StatusGetterError" ELSE "MsgGetterError")
            /\ sent' = <<>>
            /\ "kuma_push" \notin EmittedNames'
            /\ _last_push' = _last_push
            /\ lastOp'.by \in TaskIds =>
                emitted' = <<Ev("kuma_autopush_start", lastOp'.by, 0, ""),
                             Ev("kuma_autopush_error", lastOp'.by, 0, lastOp'.raised)>>
            /\ lastOp'.by \in CallerIds => emitted' = <<>>]_vars

\* the message getter raised in a loop iteration after an earlier push of
\* the monitor had succeeded
C8_Witness ==
    /\ lastOp.getters = "msg"
    /\ lastOp.by \in TaskIds
    /\ lastOp.raised = "MsgGetterError"
    /\ _last_push # None

\* C9: when include_latency is true and the latency window is empty, push()
\* fails before any HTTP request is issued: no request carries a ping made
\* up for an empty window.
C9_EmptyWindowFails ==
    /\ (lastOp.op \in {"main_loop", "push"} /\ include_latency /\ _history = <<>>) =>
        /\ sent = <<>>
        /\ lastOp.raised # ""
        /\ lastOp.getters = "ok" => lastOp.raised = "ZeroDivisionError"
    /\ \A i \in 1..Len(sent) :
        IF include_latency THEN _history # <<>> /\ sent[i].ping # NoPing
        ELSE sent[i].ping = NoPing

\* a loop's push() failed on the empty window
C9_Witness ==
    /\ lastOp.op = "main_loop"
    /\ lastOp.getters = "ok"
    /\ lastOp.raised = "ZeroDivisionError"
    /\ include_latency
    /\ _history = <<>>
    /\ sent = <<>>

\* C10: kuma_push is dispatched exactly once for every push() that obtains
\* an HTTP response, whatever the status code and whoever called push(),
\* before push() returns (in a loop: before kuma_autopush_end); it is never
\* dispatched for a push() that raises, nor at any other step.
C10_PushCompletedOnce ==
    LET pushed == {i \in 1..Len(emitted) : emitted[i].name = "kuma_push"} IN
    IF lastOp.op = "http_response"
    THEN /\ pushed = {1}
         /\ emitted[1] = Ev("kuma_push", lastOp.by, lastOp.returned, "")
         /\ lastOp.returned \in StatusCodes
    ELSE pushed = {}

\* a loop's push() obtained a non-200 response
C10_Witness ==
    /\ lastOp.op = "http_response"
    /\ lastOp.by \in TaskIds
    /\ lastOp.returned = 500
    /\ emitted = <<Ev("kuma_push", lastOp.by, 500, ""), Ev("kuma_autopush_end", lastOp.by, 500, "")>>

\* C11: a non-200 response is never reported as a failure: a loop iteration
\* whose push() returns a response, whatever its status code, dispatches
\* kuma_autopush_end with that response and no kuma_autopush_error;
\* kuma_autopush_error is dispatched only when push() raised.
C11_Non200IsCompleted ==
    /\ (lastOp.op = "http_response" /\ lastOp.by \in TaskIds) =>
        /\ emitted[Len(emitted)] = Ev("kuma_autopush_end", lastOp.by, lastOp.returned, "")
        /\ "kuma_autopush_error" \notin EmittedNames
    /\ \A i \in 1..Len(emitted) : emitted[i].name = "kuma_autopush_error" =>
        /\ lastOp.raised # ""
        /\ lastOp.returned = 0
        /\ emitted[i] = Ev("kuma_autopush_error", lastOp.by, 0, lastOp.raised)

\* a loop's push() returned a 500 response before any push had succeeded
C11_Witness ==
    /\ lastOp.op = "http_response"
    /\ lastOp.by \in TaskIds
    /\ lastOp.returned = 500
    /\ _last_push = None
    /\ "kuma_autopush_end" \in EmittedNames

\* C14: next_push is absent exactly when last_push is absent, which is
\* until a push receives a 200 response, and otherwise it is last_push +
\* interval.
C14_NextPush ==
    /\ next_push = None
    /\ [][/\ next_push' = None <=> _last_push' = None
          /\ _last_push' # None => next_push' = _last_push' + interval' /\ next_push' > _last_push'
          /\ next_push' # next_push =>
                /\ lastOp'.op = "http_response"
                /\ lastOp'.returned = HttpOk
                /\ next_push' = now + interval]_vars

\* a 200 response at a later time moved next_push
C14_Witness ==
    /\ lastOp.op = "http_response"
    /\ lastOp.returned = HttpOk
    /\ now > 0
    /\ next_push = now + interval

\* C15: the message-event handler never raises into the host's dispatch: when
\* the latency of an event cannot be computed the error is swallowed and no
\* sample is recorded.
C15_ListenerNeverRaises ==
    lastOp.op = "message" => lastOp.raised = ""

\* C16: every loop iteration ends with an interval wait, whether its push
\* returned or raised: an iteration begins only in a task that never ran or
\* at the end of the wait of the previous iteration, and every iteration
\* that reported its outcome is in that wait.
C16_WaitBetweenIterations ==
    [][\A t \in TaskIds :
        /\ (lastOp'.op = "main_loop" /\ lastOp'.by = t) =>
            \/ pc[t] = "created" /\ iterLog[t] = <<>>
            \/ pc[t] = "sleep" /\ iterLog[t] # <<>>
        /\ (lastOp'.by = t /\ lastOp'.op \in {"main_loop", "http_response", "http_error"}
                /\ (lastOp'.returned # 0 \/ lastOp'.raised # "")) =>
            pc'[t] = "sleep"
        /\ (pc[t] = "sleep" /\ pc'[t] # "sleep") =>
            \/ lastOp'.op = "main_loop" /\ lastOp'.by = t
            \/ lastOp'.op = "cancelled" /\ lastOp'.by = t /\ pc'[t] = "done"]_vars

\* a loop began a further iteration, with a request, at the end of the wait
\* of its previous iteration
C16_Witness ==
    \E t \in TaskIds :
        /\ lastOp.op = "main_loop"
        /\ lastOp.by = t
        /\ iteration[t] = 0
        /\ pc[t] = "push_await"
        /\ include_latency

\* C17: a loop that stop() cancelled ends at the suspension point where it
\* is suspended: once the cancellation reached it, it is in no further
\* await.
C17_EndsWhereSuspended ==
    \A t \in TaskIds : cancel[t] = "delivered" => pc[t] = "done"

\* C18: the monitor retains one task handle; after start() it is the handle
\* of the task that this start() created, and a following stop() cancels
\* that task, no other, and clears the handle.
C18_OneHandle ==
    /\ _task \in {NoTask} \cup TaskIds
    /\ [][/\ lastOp'.op = "start" =>
                /\ _task' = lastOp'.by
                /\ _task' \in TaskIds
                /\ pc[_task'] = "unborn"
                /\ pc'[_task'] = "created"
                /\ cancel' = cancel
          /\ (lastOp'.op = "stop" /\ _task # NoTask) =>
                /\ _task' = NoTask
                /\ pc[_task] # "done" => cancel'[_task] = "requested"
                /\ \A u \in TaskIds \ {_task} : cancel'[u] = cancel[u]
          /\ lastOp'.op \notin {"start", "stop"} => _task' = _task]_vars

\* stop() cancelled the task of the second start() and left the first
\* running
C18_Witness ==
    /\ lastOp.op = "stop"
    /\ lastOp.by = 2
    /\ _task = NoTask
    /\ cancel[2] = "requested"
    /\ cancel[1] = "no"
    /\ pc[1] # "unborn"

\* C20: a loop iteration that stop() cancels while its push awaits the
\* response has dispatched kuma_autopush_start and dispatches none of
\* kuma_push, kuma_autopush_end and kuma_autopush_error: the cancellation
\* is not caught by the except clause.
C20_CancelledPushIsSilent ==
    /\ lastOp.op \in {"cancelled", "task_end"} => emitted = <<>>
    /\ \A t \in TaskIds :
        /\ pc[t] = "sleep_raising" =>
            /\ iterLog[t] = <<"kuma_autopush_start">>
            /\ cancel[t] = "delivered"
        /\ (cancel[t] = "delivered" /\ pc[t] # "done") => pc[t] = "sleep_raising"
    /\ \A i \in 1..Len(emitted) : emitted[i].exc # "CancelledError"

\* the cancellation reached a loop during its push
C20_Witness ==
    \E t \in TaskIds :
        /\ lastOp.op = "cancelled"
        /\ lastOp.by = t
        /\ pc[t] = "sleep_raising"
        /\ iterLog[t] = <<"kuma_autopush_start">>

Min(a, b) == IF a <= b THEN a ELSE b

Abs(a) == IF a < 0 THEN 0 - a ELSE a

\* the last n elements of s
LastN(s, n) == SubSeq(s, Len(s) - n + 1, Len(s))

\* C12: after n message events the window holds exactly the most recent
\* min(n, 100) samples in arrival order: it never exceeds 100 and an append
\* at capacity evicts the oldest sample.
C12_WindowIsLast100 ==
    /\ Len(_history) <= HistoryMaxLen
    /\ _history = LastN(arrived, Min(Len(arrived), HistoryMaxLen))

\* two samples were evicted: the window begins with the third event
C12_Witness ==
    /\ Len(arrived) = HistoryMaxLen + 2
    /\ Len(_history) = HistoryMaxLen
    /\ _history[1] = arrived[3]
    /\ _history[1] # arrived[1]
    /\ _history[HistoryMaxLen] = arrived[HistoryMaxLen + 2]

\* C13: for every non-empty window average_latency is the arithmetic mean
\* of the samples retained, rounded to 2 decimal places: no multiple of
\* 0.01 is nearer to the mean; samples 10.0, 20.0, 30.0 give 20.0.
C13_AverageIsRoundedMean ==
    /\ _history # <<>> =>
        LET a == average_latency(_history)
            n == Len(_history)
        IN  /\ a.exc = ""
            /\ 2 * Abs(a.val * n - Sum(_history)) <= n
    /\ _history = <<1000, 2000, 3000>> => average_latency(_history).val = 2000
    /\ \A i \in 1..Len(sent) : sent[i].ping # NoPing =>
        2 * Abs(sent[i].ping * Len(_history) - Sum(_history)) <= Len(_history)

\* a request carries the average of a window whose mean is no multiple of 0.01
C13_Witness ==
    /\ _history = <<2000, 2000, 1000>>
    /\ Len(sent) = 1
    /\ sent[1].ping = 1667

\* C19: the ping of a request is the average of the samples in the window
\* when push() builds its params; a sample recorded while the request is in
\* flight changes the window and not the ping of that request, and the next
\* push averages it too.
C19_PingReadAtBuildTime ==
    [][/\ (sent' # <<>> /\ include_latency) =>
            /\ arrived' # <<>>
            /\ sent'[1].ping = Round(Sum(arrived'), Len(arrived'))
            /\ inflight'[lastOp'.by] = sent'[1].ping
       /\ lastOp'.op = "message" =>
            /\ inflight' = inflight
            /\ Len(_history') = Len(_history) + 1
            /\ _history' = arrived'
       /\ \A p \in Pushers : inflight'[p] # inflight[p] =>
            /\ lastOp'.by = p
            /\ lastOp'.op \in {"push", "main_loop", "http_response", "http_error", "cancelled"}]_vars

\* a sample arrived while a request was in flight: the ping of the request
\* is no longer the average of the window
C19_Witness ==
    \E p \in Pushers :
        /\ lastOp.op = "message"
        /\ pc[p] = "push_await"
        /\ inflight[p] # NoPing
        /\ inflight[p] # average_latency(_history).val

TypeOK ==
    /\ _task \in {NoTask} \cup TaskIds
    /\ _last_push \in {None} \cup (0..MaxTime)
    /\ Len(_history) <= HistoryMaxLen
    /\ pc \in [Pushers -> {"unborn", "created", "idle", "push_await", "sleep", "sleep_raising", "done"}]
    /\ cancel \in [TaskIds -> {"no", "requested", "delivered"}]
====
